---- MODULE Spec2Model ----
(***************************************************************************)
(* Model of src/MSIregNN/DLIR/DLIR.py: the layers Linear, LocNet and       *)
(* TransformationRegressor and the two models DLIR (fixed grid) and        *)
(* BSplineRegistration (grid probed from the feature extractor).           *)
(*                                                                         *)
(* Tensors are modelled by their shape; the trainable tensors also carry   *)
(* their contents as a code (base-3 digits -> entries), so that the small  *)
(* regressors are evaluated numerically in fixed point and the large ones  *)
(* are followed by shape and by data flow.                                 *)
(***************************************************************************)
EXTENDS Integers, Sequences, FiniteSets, TLC

VARIABLES
    strictShapes,   \* whether the framework build rejects empty feature maps
    obj,            \* the constructed object (or the failed construction)
    out             \* the outcome of the last forward pass

vars == <<strictShapes, obj, out>>

---------------------------------------------------------------------------
(* Bounds of the model *)

MinRes == 16        \* smallest image side
MaxRes == 22        \* largest image side
MaxSpacing == 2     \* control-point spacings 1..MaxSpacing
MaxCells == 1       \* input_dim of DLIR ranges over 10*(1..MaxCells)
MaxFactor == 4      \* BSplineRegistration factor 1..MaxFactor
MaxBatch == 2       \* batch sizes 1..MaxBatch
MaxTheta == 1       \* theta_units of a stand-alone TransformationRegressor
MaxIn == 2          \* input_dim / descriptor width of a stand-alone regressor
MaxOptSteps == 1    \* optimizer steps in a behaviour
NMasks == 1         \* distinct dropout masks
One == 4            \* fixed-point unit: the integer One stands for 1.0

(* Program constants *)

Conv1Kernel == 7
Conv2Kernel == 5
Conv2Filters == 10
PoolSize == 2
PoolStride == 2
HiddenFactor == 5
SplinePad == 3
SplineDegree == 1
DefaultDrate == 20      \* drate=0.2, in percent

---------------------------------------------------------------------------
(* Arithmetic helpers *)

Last(s) == s[Len(s)]
Front(s) == SubSeq(s, 1, Len(s) - 1)

RECURSIVE Prod(_)
Prod(s) == IF s = <<>> THEN 1 ELSE Head(s) * Prod(Tail(s))

\* tf.math.ceil(a / b) for positive integers a, b
CeilDiv(a, b) == -((-a) \div b)

\* np.sqrt(f).astype(np.int32): the square root, truncated
SqrtInt(f) == CHOOSE s \in 0..f : s * s <= f /\ f < (s + 1) * (s + 1)

\* fixed-point product, rounded to nearest
FxMul(a, b) == (2 * a * b + One) \div (2 * One)

Clamp(z) == IF z > One THEN One ELSE IF z < -One THEN -One ELSE z

\* tf.nn.tanh in fixed point: the Pade approximant x(27+x^2)/(27+9x^2),
\* rounded to nearest and saturated at +-1.0 as the float32 kernel does
Tanh(z) ==
    LET num == z * (27 * One * One + z * z)
        den == 27 * One * One + 9 * z * z
    IN  Clamp((2 * num + den) \div (2 * den))

---------------------------------------------------------------------------
(* Tensors *)

\* a code has one base-3 digit per hidden unit of the smallest regressor, so
\* the codes enumerate every weight row over {-1/One, 0, +1/One} of that width
NDigits == HiddenFactor
NCodes == 3 ^ NDigits

Tensor(shape, code) == [shape |-> shape, code |-> code]

\* entry number idx (row-major, from 0) of a tensor: digit 0 -> 0.0,
\* digit 1 -> +1/One, digit 2 -> -1/One
EntryAt(t, idx) ==
    LET d == (t.code \div (3 ^ (idx % NDigits))) % 3
    IN  IF d = 2 THEN -1 ELSE d

MatEntry(t, i, j) == EntryAt(t, (i - 1) * t.shape[2] + (j - 1))
VecEntry(t, j) == EntryAt(t, j - 1)

---------------------------------------------------------------------------
(* Linear *)

\* Linear.__init__ without its is_transformer_regressor branch: the weights
\* are drawn at random in both modes
Linear_init_random(units, input_dim, is_transformer_regressor, seed) ==
    [ w |-> Tensor(<<input_dim, units>>, seed),
      b |-> Tensor(<<units>>, 0) ]

\* Linear.__init__: w of shape (input_dim, units), b of shape (units,).
\* With is_transformer_regressor both are zeros; otherwise w is drawn by the
\* random-normal initializer (the draw is `seed`) and b is zeros.
Linear_init(units, input_dim, is_transformer_regressor, seed) ==
    [ w |-> Tensor(<<input_dim, units>>,
                   IF is_transformer_regressor THEN 0 ELSE seed),
      b |-> Tensor(<<units>>, 0) ]

\* a product that does not compare the inner dimensions
Linear_shape_unchecked(layer, xshape) ==
    [ ok    |-> TRUE,
      shape |-> Front(xshape) \o <<layer.w.shape[2]>> ]

\* The shape rule of tf.matmul(inputs, w) + b for a rank-2 w: the inner
\* dimensions must agree; the leading dimensions of inputs are kept.
Linear_shape(layer, xshape) ==
    [ ok    |-> Last(xshape) = layer.w.shape[1],
      shape |-> Front(xshape) \o <<layer.w.shape[2]>> ]

RECURSIVE Dot(_, _, _, _)
Dot(x, w, j, i) ==
    IF i = 0 THEN 0 ELSE FxMul(x[i], MatEntry(w, i, j)) + Dot(x, w, j, i - 1)

\* Linear.call on one row x (a sequence of fixed-point numbers whose length
\* is the layer's input_dim): x . w + b
Linear_call(layer, x) ==
    [ j \in 1..layer.w.shape[2] |->
        Dot(x, layer.w, j, Len(x)) + VecEntry(layer.b, j) ]

---------------------------------------------------------------------------
(* LocNet *)

\* Conv2D with an unpadded k x k kernel, stride 1
ConvOut(n, k) == n - k + 1

\* MaxPooling2D(pool_size=(2,2), strides=2), unpadded
PoolOut(n) == (n - PoolSize) \div PoolStride + 1

\* A layer's output side n is accepted when it is positive; an empty output
\* (n = 0) is accepted or rejected depending on the framework build, and a
\* negative one always is an error.
SideOk(n, strict) == IF strict THEN n >= 1 ELSE n >= 0

\* One spatial side through conv1, maxpool1, conv2, maxpool2: the sides
\* after each layer.
LocNet_sides(n) ==
    LET c1 == ConvOut(n, Conv1Kernel)
        p1 == PoolOut(c1)
        c2 == ConvOut(p1, Conv2Kernel)
        p2 == PoolOut(c2)
    IN  <<c1, p1, c2, p2>>

\* LocNet.call on a tensor of shape (batch, H, W, channels)
LocNet_call(xshape, strict) ==
    LET hs == LocNet_sides(xshape[2])
        ws == LocNet_sides(xshape[3])
        bad == { i \in 1..4 : ~SideOk(hs[i], strict) \/ ~SideOk(ws[i], strict) }
    IN  IF bad # {}
        THEN [ ok |-> FALSE, shape |-> <<>> ]
        ELSE [ ok |-> TRUE,
               shape |-> <<xshape[1], hs[4], ws[4], Conv2Filters>> ]

---------------------------------------------------------------------------
(* TransformationRegressor *)

TransformationRegressor_init(theta_units, input_dim, seed) ==
    [ linear1 |-> Linear_init(theta_units * HiddenFactor, input_dim, FALSE, seed),
      linear2 |-> Linear_init(theta_units, theta_units * HiddenFactor, TRUE, seed) ]

\* The shapes through TransformationRegressor.call: tanh keeps shapes, each
\* Linear applies the matmul rule; site names the layer that failed.
TransformationRegressor_shape(reg, xshape) ==
    LET s1 == Linear_shape(reg.linear1, xshape)
        s2 == Linear_shape(reg.linear2, s1.shape)
    IN  IF ~s1.ok THEN [ ok |-> FALSE, site |-> "linear1", shape |-> <<>> ]
        ELSE IF ~s2.ok THEN [ ok |-> FALSE, site |-> "linear2", shape |-> <<>> ]
        ELSE [ ok |-> TRUE, site |-> "", shape |-> s2.shape ]

TanhAll(v) == [ j \in 1..Len(v) |-> Tanh(v[j]) ]

\* TransformationRegressor.call on one row x accepted by linear1:
\* tanh(linear2(tanh(linear1(x))))
TransformationRegressor_call(reg, x) ==
    TanhAll(Linear_call(reg.linear2, TanhAll(Linear_call(reg.linear1, x))))

---------------------------------------------------------------------------
(* Objects *)

NoReg == TransformationRegressor_init(0, 0, 0)

\* the arguments a SpatialTransformerBspline was constructed with
Transformer(img_res, grid_res, out_dims, B) ==
    [ img_res |-> img_res, grid_res |-> grid_res, out_dims |-> out_dims, B |-> B ]

NoTransformer == Transformer(<<>>, <<>>, <<>>, 0)

\* the attributes of an object of this module; a class leaves the attributes
\* it does not have at their empty values.  `probed` is self.grid_res as it
\* stands between its two assignments in BSplineRegistration.__init__, and
\* `steps` counts the optimizer steps applied since construction.
Object(kind, status, err, img_res, grid_res, probed, B, drate, factor, transformer, reg) ==
    [ kind |-> kind, status |-> status, err |-> err,
      img_res |-> img_res, grid_res |-> grid_res, probed |-> probed,
      B |-> B, drate |-> drate, factor |-> factor,
      transformer |-> transformer, transformer_regressor |-> reg,
      steps |-> 0 ]

\* a stand-alone TransformationRegressor(theta_units, input_dim)
Regressor_new(theta_units, input_dim, seed) ==
    Object("TransformationRegressor", "ok", "", <<>>, <<>>, <<>>, 0, 0, 0,
           NoTransformer,
           TransformationRegressor_init(theta_units, input_dim, seed))

\* the control grid with W/sx and H/sy divided as integers (floor, not ceil)
FixedGrid_floor(img_res, grid_res) ==
    <<(img_res[1] \div grid_res[2]) + SplinePad,
      (img_res[2] \div grid_res[1]) + SplinePad>>

\* the control grid of DLIR.__init__: gx = ceil(W/sx), gy = ceil(H/sy),
\* nx = gx + 3, ny = gy + 3; the result is <<ny, nx>>
FixedGrid(img_res, grid_res) ==
    LET sx == grid_res[1]
        sy == grid_res[2]
        H == img_res[1]
        W == img_res[2]
        gx == CeilDiv(W, sx)
        gy == CeilDiv(H, sy)
    IN  <<gy + SplinePad, gx + SplinePad>>

\* DLIR.__init__
DLIR_init(drate, grid_res, img_res, input_dim, seed) ==
    LET B == SplineDegree
        g == FixedGrid(img_res, grid_res)
        ny == g[1]
        nx == g[2]
    IN  Object("DLIR", "ok", "", img_res, grid_res, <<>>, B, drate, 0,
               Transformer(img_res, grid_res, <<>>, B),
               TransformationRegressor_init(2 * ny * nx, input_dim, seed))

NotOne(d) == d # 1

\* numpy's squeeze() on a shape: every axis of length 1 is dropped
Squeeze(shape) == SelectSeq(shape, NotOne)

\* a construction that raised: no object exists, the arguments are kept
Failed(kind, err, img_res, factor) ==
    Object(kind, "error", err, img_res, <<>>, <<>>, 0, 0, factor,
           NoTransformer, NoReg)

\* BSplineRegistration.__init__
BSplineRegistration_init(img_res, factor, seed, strict) ==
    LET B == SplineDegree
        _test_arr == LocNet_call(<<1, img_res[1], img_res[2], 1>>, strict)
        squeezed == Squeeze(_test_arr.shape)
        probed == <<squeezed[1], squeezed[2]>>
        root == SqrtInt(factor)
        grid_res == <<probed[1] * root, probed[2] * root>>
    IN  IF ~_test_arr.ok
        THEN Failed("BSplineRegistration", "loc_net", img_res, factor)
        ELSE IF Len(squeezed) < 2
        THEN Failed("BSplineRegistration", "grid_res[1]", img_res, factor)
        ELSE Object("BSplineRegistration", "ok", "", img_res, grid_res, probed,
                    B, 0, factor,
                    Transformer(img_res, grid_res, img_res, B),
                    TransformationRegressor_init(probed[1] * probed[2] * 2,
                                                 factor, seed))

---------------------------------------------------------------------------
(* Forward passes *)

DTypes == {"float32", "float64"}

\* an image batch: (batch, H, W, 1) of the given element type
Image(batch, res, dtype) == [ batch |-> batch, res |-> res, dtype |-> dtype ]

NoImage == Image(0, <<>>, "")

ImageShape(img) == <<img.batch, img.res[1], img.res[2], 1>>

\* tf.cast(inputs, "float32")
Cast(img) == [ img EXCEPT !.dtype = "float32" ]

\* Flatten(): (batch, ...) -> (batch, product of the rest)
Flatten(shape) == <<Head(shape), Prod(Tail(shape))>>

\* tf.transpose(xs, perm) on a shape (perm counts axes from 0)
Transpose(shape, perm) == [ i \in 1..Len(perm) |-> shape[perm[i] + 1] ]

\* a descriptor: the image the feature extractor read and the dropout mask
\* applied to its features (0: none)
Descriptor(img, mask) == [ img |-> img, mask |-> mask ]

\* Dropout(rate)(xs): in training mode with a positive rate the entries
\* chosen by `mask` are zeroed and the rest rescaled; otherwise the identity
Dropout(rate, training, mask, desc) ==
    IF training /\ rate > 0 THEN [ desc EXCEPT !.mask = mask ] ELSE desc

\* what the external transformer is called with: self.transformer(inputs,
\* theta, B), where theta is the regressor (its parameters) applied to desc
Warp(inputs, desc, params, B) ==
    [ inputs |-> inputs, desc |-> desc, params |-> params, B |-> B ]

NoWarp == Warp(NoImage, Descriptor(NoImage, 0), NoReg, 0)

\* the outcome of a forward pass: the steps begun, in order; on an error the
\* last of them is the one that raised (site: the layer inside it)
Outcome(entry, status, site, trace, input, training, theta_shape, result) ==
    [ entry |-> entry, status |-> status, site |-> site, trace |-> trace,
      input |-> input, training |-> training, theta_shape |-> theta_shape,
      result |-> result, x |-> <<>>, y |-> <<>> ]

NoOutcome == Outcome("", "", "", <<>>, NoImage, FALSE, <<>>, NoWarp)

\* DLIR.call
DLIR_call(self, inputs, training, mask, strict) ==
    LET xs1 == LocNet_call(ImageShape(inputs), strict)
        xs2 == Flatten(xs1.shape)
        desc == Dropout(self.drate, training, mask, Descriptor(inputs, 0))
        theta == TransformationRegressor_shape(self.transformer_regressor, xs2)
    IN  IF ~xs1.ok
        THEN Outcome("DLIR.call", "error", "loc_net", <<"loc_net">>,
                     inputs, training, <<>>, NoWarp)
        ELSE IF ~theta.ok
        THEN Outcome("DLIR.call", "error", theta.site,
                     <<"loc_net", "flatten", "dropout", "transformer_regressor">>,
                     inputs, training, <<>>, NoWarp)
        ELSE Outcome("DLIR.call", "ok", "",
                     <<"loc_net", "flatten", "dropout", "transformer_regressor",
                       "transformer">>,
                     inputs, training, theta.shape,
                     Warp(inputs, desc, self.transformer_regressor, self.B))

\* DLIR.transform keeping the dropout of DLIR.call, in training mode
DLIR_transform_dropout(self, inputs0, strict) ==
    [ DLIR_call(self, Cast(inputs0), TRUE, 1, strict)
        EXCEPT !.entry = "DLIR.transform", !.input = inputs0, !.training = FALSE ]

\* DLIR.transform
DLIR_transform(self, inputs0, strict) ==
    LET inputs == Cast(inputs0)
        xs1 == LocNet_call(ImageShape(inputs), strict)
        xs2 == Flatten(xs1.shape)
        desc == Descriptor(inputs, 0)
        theta == TransformationRegressor_shape(self.transformer_regressor, xs2)
    IN  IF ~xs1.ok
        THEN Outcome("DLIR.transform", "error", "loc_net", <<"cast", "loc_net">>,
                     inputs0, FALSE, <<>>, NoWarp)
        ELSE IF ~theta.ok
        THEN Outcome("DLIR.transform", "error", theta.site,
                     <<"cast", "loc_net", "flatten", "transformer_regressor">>,
                     inputs0, FALSE, <<>>, NoWarp)
        ELSE Outcome("DLIR.transform", "ok", "",
                     <<"cast", "loc_net", "flatten", "transformer_regressor",
                       "transformer">>,
                     inputs0, FALSE, theta.shape,
                     Warp(inputs, desc, self.transformer_regressor, self.B))

\* BSplineRegistration.call
BSplineRegistration_call(self, moving, strict) ==
    LET xs1 == LocNet_call(ImageShape(moving), strict)
        xs2 == Transpose(xs1.shape, <<0, 3, 1, 2>>)
        theta == TransformationRegressor_shape(self.transformer_regressor, xs2)
        target == <<self.B, 2, self.grid_res[1], self.grid_res[2]>>
    IN  IF ~xs1.ok
        THEN Outcome("BSplineRegistration.call", "error", "loc_net",
                     <<"loc_net">>, moving, FALSE, <<>>, NoWarp)
        ELSE IF ~theta.ok
        THEN Outcome("BSplineRegistration.call", "error", theta.site,
                     <<"loc_net", "transpose", "transformer_regressor">>,
                     moving, FALSE, <<>>, NoWarp)
        ELSE IF Prod(theta.shape) # Prod(target)
        THEN Outcome("BSplineRegistration.call", "error", "reshape",
                     <<"loc_net", "transpose", "transformer_regressor", "reshape">>,
                     moving, FALSE, <<>>, NoWarp)
        ELSE Outcome("BSplineRegistration.call", "ok", "",
                     <<"loc_net", "transpose", "transformer_regressor", "reshape",
                       "transformer">>,
                     moving, FALSE, target,
                     Warp(moving, Descriptor(moving, 0),
                          self.transformer_regressor, self.B))

\* TransformationRegressor.call of a stand-alone regressor on one row x
Regressor_call(self, x) ==
    LET s == TransformationRegressor_shape(self.transformer_regressor, <<1, Len(x)>>)
    IN  IF ~s.ok
        THEN [ Outcome("TransformationRegressor.call", "error", s.site,
                       <<"linear1">>, NoImage, FALSE, <<>>, NoWarp)
               EXCEPT !.x = x ]
        ELSE [ Outcome("TransformationRegressor.call", "ok", "",
                       <<"linear1", "tanh", "linear2", "tanh">>,
                       NoImage, FALSE, s.shape, NoWarp)
               EXCEPT !.x = x,
                      !.y = TransformationRegressor_call(self.transformer_regressor, x) ]

---------------------------------------------------------------------------
(* Inputs *)

Res == MinRes..MaxRes
Spacings == 1..MaxSpacing
XVals == {-One, 0, One}

\* the draws of the random initializer (a normal draw is never exactly 0.0,
\* so no digit of a drawn code is 0): every such code for the small
\* stand-alone regressors, one of them for the models
AllSeeds ==
    { c \in 0..(NCodes - 1) : \A k \in 0..(NDigits - 1) : (c \div (3 ^ k)) % 3 # 0 }
ModelSeeds == {NCodes - 1}

\* the configurations the documentation names, beside the bounded ones:
\* <<grid_res, img_res, input_dim>>
NamedConfigs ==
    { <<<<50, 50>>, <<256, 256>>, 512>>, <<<<32, 32>>, <<128, 128>>, 64>> }

Regressors ==
    { Regressor_new(u, n, seed) : u \in 1..MaxTheta, n \in 1..MaxIn, seed \in AllSeeds }

DLIRs ==
    { DLIR_init(DefaultDrate, c[1], c[2], c[3], seed) :
        c \in ((Spacings \X Spacings) \X (Res \X Res)
                  \X { Conv2Filters * k : k \in 1..MaxCells }) \cup NamedConfigs,
        seed \in ModelSeeds }

BSplineRegistrations(strict) ==
    { BSplineRegistration_init(r, f, seed, strict) :
        r \in Res \X Res, f \in 1..MaxFactor, seed \in ModelSeeds }

Images(res) == { Image(b, res, t) : b \in 1..MaxBatch, t \in DTypes }

Rows == UNION { [1..n -> XVals] : n \in 1..MaxIn }

---------------------------------------------------------------------------
(* The state machine *)

Init ==
    /\ out = NoOutcome
    /\ \/ strictShapes = TRUE /\ obj \in Regressors
       \/ strictShapes = TRUE /\ obj \in DLIRs
       \/ strictShapes = TRUE /\ obj \in BSplineRegistrations(TRUE)
       \/ strictShapes = FALSE /\ obj \in DLIRs
       \/ strictShapes = FALSE /\ obj \in BSplineRegistrations(FALSE)

CallRegressor ==
    /\ obj.kind = "TransformationRegressor"
    /\ \E x \in Rows : out' = Regressor_call(obj, x)
    /\ UNCHANGED <<strictShapes, obj>>

CallDLIR ==
    /\ obj.kind = "DLIR"
    /\ \E inputs \in Images(obj.img_res), training \in BOOLEAN :
          \E mask \in IF training THEN 1..NMasks ELSE {0} :
              out' = DLIR_call(obj, inputs, training, mask, strictShapes)
    /\ UNCHANGED <<strictShapes, obj>>

TransformDLIR ==
    /\ obj.kind = "DLIR"
    /\ \E inputs \in Images(obj.img_res) :
          out' = DLIR_transform(obj, inputs, strictShapes)
    /\ UNCHANGED <<strictShapes, obj>>

\* BSplineRegistration.call doing the upsampling of the grid itself
CallBSplineRegistration_regrid ==
    /\ obj.kind = "BSplineRegistration"
    /\ obj.status = "ok"
    /\ \E moving \in Images(obj.img_res) :
          out' = BSplineRegistration_call(obj, moving, strictShapes)
    /\ obj' = [ obj EXCEPT !.grid_res = <<@[1] * SqrtInt(obj.factor),
                                          @[2] * SqrtInt(obj.factor)>> ]
    /\ UNCHANGED strictShapes

CallBSplineRegistration ==
    /\ obj.kind = "BSplineRegistration"
    /\ obj.status = "ok"
    /\ \E moving \in Images(obj.img_res) :
          out' = BSplineRegistration_call(obj, moving, strictShapes)
    /\ UNCHANGED <<strictShapes, obj>>

\* one update of a trainable tensor
Updated(t) == [ t EXCEPT !.code = (t.code + 1) % NCodes ]

\* the external optimizer: every trainable tensor of the object is updated;
\* what the last pass returned belongs to the old parameters and is dropped
OptimizerStep ==
    /\ obj.status = "ok"
    /\ obj.steps < MaxOptSteps
    /\ obj' = [ obj EXCEPT
                  !.steps = @ + 1,
                  !.transformer_regressor.linear1.w = Updated(@),
                  !.transformer_regressor.linear1.b = Updated(@),
                  !.transformer_regressor.linear2.w = Updated(@),
                  !.transformer_regressor.linear2.b = Updated(@) ]
    /\ out' = NoOutcome
    /\ UNCHANGED strictShapes

Next ==
    \/ CallRegressor
    \/ CallDLIR
    \/ TransformDLIR
    \/ CallBSplineRegistration
    \/ OptimizerStep

Spec == Init /\ [][Next]_vars

---------------------------------------------------------------------------
(* Properties *)

IsModel == obj.kind \in {"DLIR", "BSplineRegistration"}
IsDLIRPass(o) == o.entry \in {"DLIR.call", "DLIR.transform"}
RegressorOf(o) == o.transformer_regressor
OutputWidth(o) == RegressorOf(o).linear2.w.shape[2]
InputDim(o) == RegressorOf(o).linear1.w.shape[1]
Elements(s) == { s[i] : i \in 1..Len(s) }

\* the side of the feature map of an image side n, as the documentation
\* gives it: floor((floor((n - 6) / 2) - 4) / 2)
FeatSide(n) == (((n - 6) \div 2) - 4) \div 2

\* the smallest image side with a feature-map side of 1
MinSide == CHOOSE n \in 1..MaxRes : FeatSide(n) = 1 /\ FeatSide(n - 1) < 1

\* C1: a DLIR built for image resolution (H, W) and spacing (sx, sy) has a
\* regressor of output width 2 * gridH * gridW, where gridW = ceil(W/sx) + 3
\* and gridH = ceil(H/sy) + 3 (gx = ceil(W/sx) is the integer with
\* (gx-1)*sx < W <= gx*sx); 256x256 at spacing 50 gives 162 and 128x128 at
\* spacing 32 gives 98.
C1_FixedGridWidth ==
    obj.kind = "DLIR" =>
        LET H == obj.img_res[1]
            W == obj.img_res[2]
            sx == obj.grid_res[1]
            sy == obj.grid_res[2]
        IN  /\ \E gx \in 1..W, gy \in 1..H :
                /\ (gx - 1) * sx < W /\ W <= gx * sx
                /\ (gy - 1) * sy < H /\ H <= gy * sy
                /\ OutputWidth(obj) = 2 * (gy + 3) * (gx + 3)
            /\ RegressorOf(obj).linear2.b.shape = <<OutputWidth(obj)>>
            /\ (obj.img_res = <<256, 256>> /\ obj.grid_res = <<50, 50>>
                    => OutputWidth(obj) = 162)
            /\ (obj.img_res = <<128, 128>> /\ obj.grid_res = <<32, 32>>
                    => OutputWidth(obj) = 98)

C1_Witness ==
    /\ obj.kind = "DLIR"
    /\ obj.img_res = <<256, 256>> /\ obj.grid_res = <<50, 50>>
    /\ OutputWidth(obj) = 162

\* C2: a freshly constructed TransformationRegressor (no optimizer step yet)
\* accepts every row whose width is the first layer's input_dim and returns
\* the all-zero vector of its output width for it, whatever the first
\* layer's weights are.
C2_IdentityStart ==
    (obj.kind = "TransformationRegressor" /\ obj.steps = 0
        /\ out.entry = "TransformationRegressor.call"
        /\ Len(out.x) = InputDim(obj)) =>
            /\ out.status = "ok"
            /\ Len(out.y) = OutputWidth(obj)
            /\ \A k \in 1..Len(out.y) : out.y[k] = 0

C2_Witness ==
    /\ obj.kind = "TransformationRegressor" /\ obj.steps = 0
    /\ out.entry = "TransformationRegressor.call" /\ out.status = "ok"
    /\ \E j \in 1..(OutputWidth(obj) * HiddenFactor) :
          Tanh(Linear_call(RegressorOf(obj).linear1, out.x)[j]) # 0
    /\ \A k \in 1..Len(out.y) : out.y[k] = 0

\* C3: every call of a successfully constructed BSplineRegistration on a
\* moving image of resolution img_res completes and returns theta of shape
\* (1, 2, gridH, gridW), the grid stored at construction.
C3_ThetaShape ==
    (obj.kind = "BSplineRegistration" /\ obj.status = "ok"
        /\ out.entry = "BSplineRegistration.call") =>
            /\ out.status = "ok"
            /\ out.theta_shape = <<1, 2, obj.grid_res[1], obj.grid_res[2]>>

\* C4: a constructed BSplineRegistration has a regressor of output width
\* 2 * gridH * gridW, for the final grid (after the sqrt(factor) upsampling)
\* that it stores and hands to the transformer.
C4_RegressorMatchesGrid ==
    (obj.kind = "BSplineRegistration" /\ obj.status = "ok") =>
        /\ obj.transformer.grid_res = obj.grid_res
        /\ OutputWidth(obj) = 2 * obj.grid_res[1] * obj.grid_res[2]

\* C5: after a BSplineRegistration is constructed with factor f, each final
\* grid dimension is the probed feature-map dimension times the truncated
\* square root of f (no error for a factor that is no perfect square).
C5_UpsampledGrid ==
    (obj.kind = "BSplineRegistration" /\ obj.status = "ok"
        /\ FeatSide(obj.img_res[1]) >= 1 /\ FeatSide(obj.img_res[2]) >= 1) =>
            \E s \in 0..obj.factor :
                /\ s * s <= obj.factor /\ obj.factor < (s + 1) * (s + 1)
                /\ obj.grid_res = <<FeatSide(obj.img_res[1]) * s,
                                    FeatSide(obj.img_res[2]) * s>>

\* C6: constructing a BSplineRegistration at the smallest resolution the
\* feature extractor can process (feature map 1 x 1) raises no error, and
\* constructing it with either side one pixel smaller raises one.
C6_ProbeBoundary ==
    obj.kind = "BSplineRegistration" =>
        /\ (obj.img_res = <<MinSide, MinSide>> => obj.status = "ok")
        /\ (obj.img_res[1] = MinSide - 1 \/ obj.img_res[2] = MinSide - 1
                => obj.status = "error")

\* C8: whenever the probe succeeds, also with a feature map of height or
\* width 1, the grid recorded before upsampling is the feature map's
\* spatial size (h', w').
C8_ProbedGrid ==
    (obj.kind = "BSplineRegistration" /\ obj.status = "ok"
        /\ FeatSide(obj.img_res[1]) >= 1 /\ FeatSide(obj.img_res[2]) >= 1) =>
            obj.probed = <<FeatSide(obj.img_res[1]), FeatSide(obj.img_res[2])>>

\* C7: a successful transform runs cast, feature extractor, flatten,
\* regressor, transformer and never dropout; a successful call runs feature
\* extractor, flatten, dropout, regressor, transformer and never a cast.
C7_Steps ==
    /\ out.entry = "DLIR.transform" =>
          /\ "dropout" \notin Elements(out.trace)
          /\ out.trace[1] = "cast"
          /\ out.status = "ok" =>
                out.trace = <<"cast", "loc_net", "flatten",
                              "transformer_regressor", "transformer">>
    /\ out.entry = "DLIR.call" =>
          /\ "cast" \notin Elements(out.trace)
          /\ out.status = "ok" =>
                out.trace = <<"loc_net", "flatten", "dropout",
                              "transformer_regressor", "transformer">>

\* dropout acted as the identity in the pass that returned o
DropoutIdle(o) == o.entry = "DLIR.transform" \/ ~o.training

\* C7: of two successive successful passes over the same float32 input with
\* the weights unchanged, each a transform or a call whose dropout is the
\* identity, the second returns what the first returned; two successive
\* transforms return the same result for the same input of any type.
C7_SameResult ==
    (/\ IsDLIRPass(out) /\ IsDLIRPass(out')
     /\ out.status = "ok" /\ out'.status = "ok"
     /\ RegressorOf(obj') = RegressorOf(obj)
     /\ out'.input = out.input
     /\ DropoutIdle(out) /\ DropoutIdle(out')
     /\ \/ out.input.dtype = "float32"
        \/ out.entry = "DLIR.transform" /\ out'.entry = "DLIR.transform")
        => out'.result = out.result

\* C7: transform runs cast and no dropout, call runs dropout and no cast
\* (C7_Steps, in every state), and on a float32 input with unchanged weights
\* transform returns what call returns with dropout idle, and what an
\* earlier transform returned (C7_SameResult, in every step).
C7_TransformEntryPoint == []C7_Steps /\ [][C7_SameResult]_vars

C7_Witness ==
    /\ out.entry = "DLIR.transform" /\ out.status = "ok"
    /\ out.input.dtype = "float32"
    /\ out.result = DLIR_call(obj, out.input, FALSE, 1, strictShapes).result
    /\ out.result # DLIR_call(obj, out.input, TRUE, 1, strictShapes).result

\* C9: a DLIR pass over an image with feature map h' x w' reaches the
\* transformer only if input_dim = h' * w' * 10; with any other input_dim it
\* stops at the first linear layer of the regressor, the transformer is not
\* invoked and nothing is returned.
C9_State ==
    (obj.kind = "DLIR" /\ IsDLIRPass(out)) =>
        LET h == FeatSide(out.input.res[1])
            w == FeatSide(out.input.res[2])
            d == h * w * 10
        IN  /\ "transformer" \in Elements(out.trace)
                => h >= 1 /\ w >= 1 /\ InputDim(obj) = d
            /\ (h >= 1 /\ w >= 1 /\ InputDim(obj) # d) =>
                /\ out.status = "error"
                /\ out.site = "linear1"
                /\ Last(out.trace) = "transformer_regressor"
                /\ "transformer" \notin Elements(out.trace)
                /\ out.result = NoWarp
                /\ out.theta_shape = <<>>

\* C9: a pass that ends in an error changes no weight, bias or geometry.
C9_Frame ==
    (IsDLIRPass(out') /\ out'.status = "error" /\ out' # out) => obj' = obj

Geometry(o) == <<o.grid_res, o.img_res, o.B, o.probed, o.transformer>>

\* C10: no step changes the grid geometry, img_res or B (= 1) of a
\* constructed model, and only an optimizer step changes a weight matrix
\* or a bias vector: forward passes leave all of them as they were.
C10_Step ==
    (IsModel /\ obj.status = "ok") =>
        /\ obj.B = 1 /\ obj'.B = 1
        /\ Geometry(obj') = Geometry(obj)
        /\ obj'.steps = obj.steps => RegressorOf(obj') = RegressorOf(obj)
        /\ out' # out /\ out' # NoOutcome => obj' = obj

\* C10: statelessness across calls: every step of every behaviour satisfies
\* C10_Step, so after any sequence of forward passes without an optimizer
\* step the geometry, B and every weight and bias are as constructed.
C10_Stateless == [][C10_Step]_vars

C10_Witness ==
    /\ obj.kind = "BSplineRegistration" /\ obj.status = "ok" /\ obj.steps = 0
    /\ out.entry = "BSplineRegistration.call"
    /\ obj \in BSplineRegistrations(strictShapes)

====
